---- MODULE Spec2Model ----
(***************************************************************************)
(* Verification model of the PyTorch notebooks of the repository:          *)
(*   - "Saving and Loading Models"  (src/unnamed/part_001, lines 1-406)    *)
(*   - "Tensors"                    (src/unnamed/part_001, lines 408-787)  *)
(*   - "Training Networks"          (src/unnamed/part_001, lines 789-1354) *)
(* A notebook is a linear script: its code cells are the steps of the      *)
(* state machine and the kernel's global names are its variables.          *)
(***************************************************************************)
EXTENDS Integers, Sequences, FiniteSets, TLC

VARIABLES
    \* ---- "Saving and Loading Models" ----
    pc,             \* execution count of the next cell to run (5..15)
    model,          \* the global `model`
    file,           \* content of 'checkpoint.pth'
    state_dict,     \* the global `state_dict`
    checkpoint,     \* the global `checkpoint`
    error,          \* error messages of the exception raised by the last cell
    trained_model,  \* history: value of `model` when fc_model.train returned
    saved_model,    \* history: value of `model` when the checkpoint save cell ran
    \* ---- "Training Networks": autograd cells ----
    gpc,            \* next autograd cell
    x,              \* the tensor x (requires_grad=True)
    y,              \* y = x**2
    z,              \* z = y.mean()
    x_grad,         \* x.grad
    printed,        \* what the autograd cells printed, in order
    \* ---- "Training Networks": training cells ----
    tpc,            \* next statement of the training cells
    e,              \* epoch index of the loop
    steps,          \* the global `steps`
    remaining,      \* mini-batches the loader has not yet yielded this epoch
    batch,          \* current mini-batch (images, labels)
    output,         \* result of the last forward pass
    loss,           \* result of the last loss computation
    grad,           \* .grad of the model's parameters
    weights,        \* the model's parameters
    running_loss,   \* losses summed since the last print
    ops,            \* history: operations of the current training step, in order
    \* ---- "Training Networks": inference cell ----
    grad_enabled,   \* torch.is_grad_enabled(), the kernel's gradient mode
    prev,           \* the gradient mode torch.no_grad() saved on entry
    img,            \* the global `img`
    logits,         \* the global `logits`
    ps,             \* the global `ps`
    \* ---- "Tensors" (its x, y, z are written X, Y, Z here) ----
    npc,            \* next cell of the notebook
    heap,           \* the tensor objects of the kernel, by identity
    X,              \* the global `x`: a reference into heap
    Y,              \* the global `y`
    Z,              \* the global `z`
    Out,            \* what the last cell returned or printed
    Out_add         \* history: the tensor the z.add(1) cell returned

slVars    == <<pc, model, file, state_dict, checkpoint, error, trained_model,
               saved_model>>
gradVars  == <<gpc, x, y, z, x_grad, printed>>
trainVars == <<tpc, e, steps, remaining, batch, output, loss, grad, weights,
               running_loss, ops>>
inferVars == <<grad_enabled, prev, img, logits, ps>>
tensVars  == <<npc, heap, X, Y, Z, Out, Out_add>>
vars      == <<slVars, gradVars, trainVars, inferVars, tensVars>>

\* Each notebook runs in a kernel of its own: its cells leave the names of
\* the other notebooks alone.
SaveLoadOnly == UNCHANGED <<gradVars, trainVars, inferVars, tensVars>>
AutogradOnly == UNCHANGED <<slVars, trainVars, inferVars, tensVars>>
TrainingOnly == UNCHANGED <<slVars, gradVars, inferVars, tensVars>>
TensorsOnly  == UNCHANGED <<slVars, gradVars, trainVars, inferVars>>

(***************************************************************************)
(* Bounds of the model                                                     *)
(***************************************************************************)
MaxHidden == 2      \* most hidden layers of an arbitrary network
MaxWidth  == 2      \* widths of an arbitrary network's hidden layers: 1..MaxWidth
NumVals   == 5      \* distinct outcomes of a random initialisation / of training

\* Abstract parameter contents: a freshly built network holds one of InitVals
\* in every parameter, a trained one one of TrainVals.
InitVals  == 1..NumVals
TrainVals == (NumVals + 1)..(2 * NumVals)

(***************************************************************************)
(* Python values                                                           *)
(***************************************************************************)
None == [type |-> "None"]

Tensor(shape, val) == [type |-> "Tensor", shape |-> shape, val |-> val]

\* nn.Linear(in_features, out_features): weight is out x in, bias is out.
Linear(i, o, v) ==
    [in_features |-> i, out_features |-> o,
     weight |-> Tensor(<<o, i>>, v), bias |-> Tensor(<<o>>, v)]

\* fc_model.Network(input_size, output_size, hidden_layers); v is the outcome
\* of the random initialisation.
Network(i, o, hidden, v) ==
    [type |-> "Network",
     hidden_layers |->
        [k \in 1..Len(hidden) |->
            Linear(IF k = 1 THEN i ELSE hidden[k - 1], hidden[k], v)],
     output |-> Linear(hidden[Len(hidden)], o, v)]

\* The constructor arguments a network was built with.
Arch(m) ==
    [input_size |-> m.hidden_layers[1].in_features,
     output_size |-> m.output.out_features,
     hidden_layers |->
        [k \in 1..Len(m.hidden_layers) |-> m.hidden_layers[k].out_features]]

\* model.state_dict(): an ordered mapping, hidden layers first (weight, bias
\* of each), then the output layer.
model_state_dict(m) ==
    LET n == Len(m.hidden_layers)
        hid == [j \in 1..(2 * n) |->
                  LET k == (j + 1) \div 2
                  IN  IF j % 2 = 1
                      THEN [key |-> <<"hidden_layers", k - 1, "weight">>,
                            tensor |-> m.hidden_layers[k].weight]
                      ELSE [key |-> <<"hidden_layers", k - 1, "bias">>,
                            tensor |-> m.hidden_layers[k].bias]]
    IN  [type |-> "OrderedDict",
         items |-> hid \o
            << [key |-> <<"output", "weight">>, tensor |-> m.output.weight],
               [key |-> <<"output", "bias">>,   tensor |-> m.output.bias] >>]

Keys(sd) == [j \in 1..Len(sd.items) |-> sd.items[j].key]
KeySet(sd) == {sd.items[j].key : j \in 1..Len(sd.items)}
Lookup(sd, k) ==
    LET j == CHOOSE j \in 1..Len(sd.items) : sd.items[j].key = k
    IN  sd.items[j].tensor

(***************************************************************************)
(* torch.save / torch.load: the file holds a serialised form, in which a   *)
(* tensor is a storage with a size and a mapping is a list of pairs.       *)
(***************************************************************************)
\* Faulty variant: the size is written in reverse order.
PickleTensor_reversed(t) ==
    <<"tensor", [k \in 1..Len(t.shape) |-> t.shape[Len(t.shape) + 1 - k]], t.val>>
PickleTensor(t) == <<"tensor", t.shape, t.val>>
UnpickleTensor(p) == Tensor(p[2], p[3])

PickleODict(sd) ==
    <<"odict", [j \in 1..Len(sd.items) |->
                    <<sd.items[j].key, PickleTensor(sd.items[j].tensor)>>]>>
UnpickleODict(p) ==
    [type |-> "OrderedDict",
     items |-> [j \in 1..Len(p[2]) |->
                    [key |-> p[2][j][1], tensor |-> UnpickleTensor(p[2][j][2])]]]

\* Faulty variant: of a dictionary only the parameter mapping is written.
torch_save_state_dict_only(obj) ==
    IF obj.type = "OrderedDict"
    THEN [type |-> "file", pickle |-> PickleODict(obj)]
    ELSE [type |-> "file", pickle |-> PickleODict(obj.state_dict)]

torch_save(obj) ==
    IF obj.type = "OrderedDict"
    THEN [type |-> "file", pickle |-> PickleODict(obj)]
    ELSE [type |-> "file",
          pickle |-> <<"dict",
                       << <<"input_size", obj.input_size>>,
                          <<"output_size", obj.output_size>>,
                          <<"hidden_layers", obj.hidden_layers>>,
                          <<"state_dict", PickleODict(obj.state_dict)>> >> >>]

\* Faulty variant: the mapping comes back in the reverse order.
torch_load_reversed(f) ==
    LET rev(sd) ==
            [type |-> "OrderedDict",
             items |-> [j \in 1..Len(sd.items) |-> sd.items[Len(sd.items) + 1 - j]]]
    IN  IF f.pickle[1] = "odict"
        THEN rev(UnpickleODict(f.pickle))
        ELSE LET kv == f.pickle[2]
             IN  [type |-> "dict",
                  input_size |-> kv[1][2],
                  output_size |-> kv[2][2],
                  hidden_layers |-> kv[3][2],
                  state_dict |-> rev(UnpickleODict(kv[4][2]))]

torch_load(f) ==
    IF f.pickle[1] = "odict"
    THEN UnpickleODict(f.pickle)
    ELSE LET kv == f.pickle[2]
         IN  [type |-> "dict",
              input_size |-> kv[1][2],
              output_size |-> kv[2][2],
              hidden_layers |-> kv[3][2],
              state_dict |-> UnpickleODict(kv[4][2])]

(***************************************************************************)
(* Module.load_state_dict(state_dict), strict: every parameter whose key   *)
(* is in the mapping with the same shape is copied; a differing shape, a   *)
(* missing key and an unexpected key are each an error message, and any    *)
(* error message raises RuntimeError after the traversal.  (The error of   *)
(* In [11] names every key but output.bias, whose shape is the same in     *)
(* both networks.)                                                         *)
(***************************************************************************)
\* Faulty variant: shapes are not compared.
LoadErrors_keys_only(m, sd) ==
    LET own == model_state_dict(m)
    IN  {[msg |-> "Missing key(s) in state_dict", key |-> k] :
            k \in KeySet(own) \ KeySet(sd)}
        \cup {[msg |-> "Unexpected key(s) in state_dict", key |-> k] :
                k \in KeySet(sd) \ KeySet(own)}

LoadErrors(m, sd) ==
    LET own == model_state_dict(m)
    IN  {[msg |-> "size mismatch", key |-> k] :
            k \in {k \in KeySet(own) \cap KeySet(sd) :
                      Lookup(sd, k).shape # Lookup(own, k).shape}}
        \cup {[msg |-> "Missing key(s) in state_dict", key |-> k] :
                k \in KeySet(own) \ KeySet(sd)}
        \cup {[msg |-> "Unexpected key(s) in state_dict", key |-> k] :
                k \in KeySet(sd) \ KeySet(own)}

CopyParam(t, key, sd) ==
    IF key \in KeySet(sd) /\ Lookup(sd, key).shape = t.shape
    THEN Tensor(t.shape, Lookup(sd, key).val)
    ELSE t

load_state_dict(m, sd) ==
    [model |->
        [m EXCEPT
            !.hidden_layers =
                [k \in 1..Len(m.hidden_layers) |->
                    [m.hidden_layers[k] EXCEPT
                        !.weight = CopyParam(@, <<"hidden_layers", k - 1, "weight">>, sd),
                        !.bias   = CopyParam(@, <<"hidden_layers", k - 1, "bias">>, sd)]],
            !.output =
                [m.output EXCEPT
                    !.weight = CopyParam(@, <<"output", "weight">>, sd),
                    !.bias   = CopyParam(@, <<"output", "bias">>, sd)]],
     errors |-> LoadErrors(m, sd)]

\* fc_model.train(model, ...): updates every parameter in place.
train(m, v) ==
    [m EXCEPT
        !.hidden_layers =
            [k \in 1..Len(m.hidden_layers) |->
                [m.hidden_layers[k] EXCEPT !.weight.val = v, !.bias.val = v]],
        !.output = [m.output EXCEPT !.weight.val = v, !.bias.val = v]]

(***************************************************************************)
(* The cells of "Saving and Loading Models"                                *)
(***************************************************************************)
input_size  == 784
output_size == 10
TrainedHidden == <<512, 256, 128>>
OtherHidden   == <<400, 200, 100>>

\* Faulty variant: the widths are taken from in_features.
CheckpointRecord_in_features(m) ==
    [type |-> "dict",
     input_size |-> input_size,
     output_size |-> output_size,
     hidden_layers |->
        [k \in 1..Len(m.hidden_layers) |-> m.hidden_layers[k].in_features],
     state_dict |-> model_state_dict(m)]

\* Faulty variant: the two sizes are written under each other's key.
CheckpointRecord_sizes_swapped(m) ==
    [type |-> "dict",
     input_size |-> output_size,
     output_size |-> input_size,
     hidden_layers |->
        [k \in 1..Len(m.hidden_layers) |-> m.hidden_layers[k].out_features],
     state_dict |-> model_state_dict(m)]

\* The dictionary of the checkpoint save cell.
CheckpointRecord(m) ==
    [type |-> "dict",
     input_size |-> input_size,
     output_size |-> output_size,
     hidden_layers |->
        [k \in 1..Len(m.hidden_layers) |-> m.hidden_layers[k].out_features],
     state_dict |-> model_state_dict(m)]

\* load_checkpoint(filepath); v is the outcome of the random initialisation
\* of the network it builds.
load_checkpoint(f, v) ==
    LET ckpt == torch_load(f)
    IN  IF ckpt.type # "dict"
        THEN [model |-> None, errors |-> {[msg |-> "KeyError", key |-> <<"input_size">>]}]
        ELSE load_state_dict(
                 Network(ckpt.input_size, ckpt.output_size, ckpt.hidden_layers, v),
                 ckpt.state_dict)

(***************************************************************************)
(* Cell by cell.  Archs and Vals are the constructor arguments and the     *)
(* random outcomes a cell may see: the literal ones of the notebook under  *)
(* Spec, any small network under SpecAny.                                  *)
(***************************************************************************)
ArchOf(i, o, hidden) == [input_size |-> i, output_size |-> o, hidden_layers |-> hidden]

\* In [5]: model = fc_model.Network(784, 10, [512, 256, 128])
Cell5(Archs, Vals) ==
    /\ pc = 5
    /\ SaveLoadOnly
    /\ \E a \in Archs, v \in Vals :
          model' = Network(a.input_size, a.output_size, a.hidden_layers, v)
    /\ error' = {}
    /\ pc' = 6
    /\ UNCHANGED <<file, state_dict, checkpoint, trained_model, saved_model>>

\* In [6]: fc_model.train(model, trainloader, testloader, criterion, optimizer, epochs=2)
Cell6(Vals) ==
    /\ pc = 6
    /\ SaveLoadOnly
    /\ \E v \in Vals :
          /\ model' = train(model, v)
          /\ trained_model' = train(model, v)
    /\ error' = {}
    /\ pc' = 7
    /\ UNCHANGED <<file, state_dict, checkpoint, saved_model>>

\* In [7]: print(model); print(model.state_dict().keys())
Cell7 ==
    /\ pc = 7
    /\ SaveLoadOnly
    /\ error' = {}
    /\ pc' = 8
    /\ UNCHANGED <<model, file, state_dict, checkpoint, trained_model, saved_model>>

\* In [8]: torch.save(model.state_dict(), 'checkpoint.pth')
Cell8 ==
    /\ pc = 8
    /\ SaveLoadOnly
    /\ file' = torch_save(model_state_dict(model))
    /\ error' = {}
    /\ pc' = 9
    /\ UNCHANGED <<model, state_dict, checkpoint, trained_model, saved_model>>

\* In [9]: state_dict = torch.load('checkpoint.pth')
Cell9 ==
    /\ pc = 9
    /\ SaveLoadOnly
    /\ state_dict' = torch_load(file)
    /\ error' = {}
    /\ pc' = 10
    /\ UNCHANGED <<model, file, checkpoint, trained_model, saved_model>>

\* In [10]: model.load_state_dict(state_dict)
Cell10 ==
    /\ pc = 10
    /\ SaveLoadOnly
    /\ LET r == load_state_dict(model, state_dict)
       IN  /\ model' = r.model
           /\ error' = r.errors
    /\ pc' = 11
    /\ UNCHANGED <<file, state_dict, checkpoint, trained_model, saved_model>>

\* In [11]: model = fc_model.Network(784, 10, [400, 200, 100])
\*          model.load_state_dict(state_dict)
\* The name is rebound before the load, so it stays rebound when the load raises.
Cell11(Archs, Vals) ==
    /\ pc = 11
    /\ SaveLoadOnly
    /\ \E a \in Archs, v \in Vals :
          LET r == load_state_dict(
                       Network(a.input_size, a.output_size, a.hidden_layers, v),
                       state_dict)
          IN  /\ model' = r.model
              /\ error' = r.errors
    /\ pc' = 12
    /\ UNCHANGED <<file, state_dict, checkpoint, trained_model, saved_model>>

\* In [12]: checkpoint = {...}; torch.save(checkpoint, 'checkpoint.pth')
Cell12 ==
    /\ pc = 12
    /\ SaveLoadOnly
    /\ checkpoint' = CheckpointRecord(model)
    /\ file' = torch_save(CheckpointRecord(model))
    /\ saved_model' = model
    /\ error' = {}
    /\ pc' = 13
    /\ UNCHANGED <<model, state_dict, trained_model>>

\* In [13]: def load_checkpoint(filepath): ...
Cell13 ==
    /\ pc = 13
    /\ SaveLoadOnly
    /\ error' = {}
    /\ pc' = 14
    /\ UNCHANGED <<model, file, state_dict, checkpoint, trained_model, saved_model>>

\* In [14]: model = load_checkpoint('checkpoint.pth')
\* The assignment happens only if load_checkpoint returns.
Cell14(Vals) ==
    /\ pc = 14
    /\ SaveLoadOnly
    /\ \E v \in Vals :
          LET r == load_checkpoint(file, v)
          IN  /\ model' = IF r.errors = {} THEN r.model ELSE model
              /\ error' = r.errors
    /\ pc' = 15
    /\ UNCHANGED <<file, state_dict, checkpoint, trained_model, saved_model>>

SLInit ==
    /\ pc = 5
    /\ model = None
    /\ file = None
    /\ state_dict = None
    /\ checkpoint = None
    /\ error = {}
    /\ trained_model = None
    /\ saved_model = None

(***************************************************************************)
(* "Training Networks", autograd cells.  A tensor is its shape and its     *)
(* elements in row-major order; an element is an exact fraction            *)
(* <<numerator, denominator>> in lowest terms with a positive denominator. *)
(***************************************************************************)
MaxX == 1           \* elements of x are drawn from -MaxX..MaxX

RECURSIVE Gcd(_, _)
Gcd(a, b) == IF b = 0 THEN a ELSE Gcd(b, a % b)
Abs(n) == IF n < 0 THEN -n ELSE n

Frac(n, d) ==
    LET g == Gcd(Abs(n), Abs(d))
        s == IF d < 0 THEN -1 ELSE 1
    IN  <<(s * n) \div g, (s * d) \div g>>
FMul(a, b) == Frac(a[1] * b[1], a[2] * b[2])
FAdd(a, b) == Frac(a[1] * b[2] + b[1] * a[2], a[2] * b[2])
FDivInt(a, n) == Frac(a[1], a[2] * n)
RECURSIVE FPow(_, _)
FPow(a, n) == IF n = 0 THEN Frac(1, 1) ELSE FMul(a, FPow(a, n - 1))
RECURSIVE FSum(_)
FSum(s) == IF s = <<>> THEN Frac(0, 1) ELSE FAdd(s[1], FSum(Tail(s)))

RECURSIVE Numel(_)
Numel(shape) == IF shape = <<>> THEN 1 ELSE shape[1] * Numel(Tail(shape))

GradTensor(shape, data, requires_grad, grad_fn) ==
    [type |-> "Tensor", shape |-> shape, data |-> data,
     requires_grad |-> requires_grad, grad_fn |-> grad_fn]

\* x ** n, elementwise.
pow(t, n) ==
    GradTensor(t.shape, [k \in 1..Len(t.data) |-> FPow(t.data[k], n)],
               t.requires_grad,
               IF t.requires_grad THEN "PowBackward0" ELSE "None")

\* y.mean(): a scalar, the sum of the elements over their number.
mean(t) ==
    GradTensor(<<>>, <<FDivInt(FSum(t.data), Numel(t.shape))>>,
               t.requires_grad,
               IF t.requires_grad THEN "MeanBackward1" ELSE "None")

\* x / n, elementwise.
div(t, n) ==
    GradTensor(t.shape, [k \in 1..Len(t.data) |-> FDivInt(t.data[k], n)],
               t.requires_grad,
               IF t.requires_grad THEN "DivBackward0" ELSE "None")

\* Faulty variant: the backward of a sum, not of a mean.
MeanBackward_no_divide(g, n) == [k \in 1..n |-> g]

\* Backward of the mean over n elements: the incoming gradient, over n, for
\* every element.
MeanBackward(g, n) == [k \in 1..n |-> FDivInt(g, n)]

\* Backward of t ** n: incoming gradient times n * t ** (n - 1), elementwise.
PowBackward(g, t, n) ==
    [k \in 1..Len(t.data) |->
        FMul(g[k], FMul(Frac(n, 1), FPow(t.data[k], n - 1)))]

\* The leaf accumulates: the first gradient is stored, later ones are added.
AccumulateGrad(old, shape, g) ==
    IF old = None
    THEN GradTensor(shape, g, FALSE, "None")
    ELSE GradTensor(shape, [k \in 1..Len(g) |-> FAdd(old.data[k], g[k])],
                    FALSE, "None")

\* Faulty variant: the leaf receives no gradient.
backward_no_leaf(grad_x, tx) == grad_x

\* z.backward() for z = (x ** 2).mean(): from z down to the leaf x.
backward(grad_x, tx) ==
    AccumulateGrad(grad_x, tx.shape,
                   PowBackward(MeanBackward(Frac(1, 1), Numel(tx.shape)), tx, 2))

XElems == {Frac(n, 1) : n \in (-MaxX)..MaxX}

\* x = torch.randn(2,2, requires_grad=True); print(x)
CellRandn ==
    /\ gpc = "randn"
    /\ AutogradOnly
    /\ \E d \in [1..4 -> XElems] :
          x' = GradTensor(<<2, 2>>, d, TRUE, "None")
    /\ printed' = Append(printed, x')
    /\ gpc' = "pow"
    /\ UNCHANGED <<y, z, x_grad>>

\* y = x**2; print(y)
CellPow ==
    /\ gpc = "pow"
    /\ AutogradOnly
    /\ y' = pow(x, 2)
    /\ printed' = Append(printed, y')
    /\ gpc' = "grad_fn"
    /\ UNCHANGED <<x, z, x_grad>>

\* print(y.grad_fn)
CellGradFn ==
    /\ gpc = "grad_fn"
    /\ AutogradOnly
    /\ printed' = Append(printed, [type |-> "grad_fn", name |-> y.grad_fn])
    /\ gpc' = "mean"
    /\ UNCHANGED <<x, y, z, x_grad>>

\* z = y.mean(); print(z)
CellMean ==
    /\ gpc = "mean"
    /\ AutogradOnly
    /\ z' = mean(y)
    /\ printed' = Append(printed, z')
    /\ gpc' = "print_grad"
    /\ UNCHANGED <<x, y, x_grad>>

\* print(x.grad)
CellPrintGrad ==
    /\ gpc = "print_grad"
    /\ AutogradOnly
    /\ printed' = Append(printed, x_grad)
    /\ gpc' = "backward"
    /\ UNCHANGED <<x, y, z, x_grad>>

\* z.backward(); print(x.grad); print(x/2)
CellBackward ==
    /\ gpc = "backward"
    /\ AutogradOnly
    /\ x_grad' = backward(x_grad, x)
    /\ printed' = printed \o <<backward(x_grad, x), div(x, 2)>>
    /\ gpc' = "done"
    /\ UNCHANGED <<x, y, z>>

GradInit ==
    /\ gpc = "randn"
    /\ x = None
    /\ y = None
    /\ z = None
    /\ x_grad = None
    /\ printed = <<>>

(***************************************************************************)
(* "Training Networks", training cells, statement by statement.            *)
(* The parameters are the list of the gradients the optimizer has applied; *)
(* a gradient is the list of its terms, one per backward pass accumulated  *)
(* into it; a term names the mini-batch whose loss it is the gradient of   *)
(* and the number of updates the parameters had at the forward pass.       *)
(***************************************************************************)
NumBatches  == 2    \* mini-batches the loader yields per epoch
epochs      == 3
print_every == 40

Batches == 1..NumBatches

\* Faulty variant: the gradient is left as it is.
zero_grad_noop(g) == g

\* optimizer.zero_grad(): a gradient that exists is zeroed in place.
zero_grad(g) == IF g = None THEN None ELSE [type |-> "grad", terms |-> <<>>]

\* Faulty variant: entering the block leaves the gradient mode as it was.
no_grad_enter_noop(mode) == [prev |-> mode, grad_enabled |-> mode]

\* torch.no_grad().__enter__(): the gradient mode is saved and switched off.
no_grad_enter(mode) == [prev |-> mode, grad_enabled |-> FALSE]

\* torch.no_grad().__exit__(): the saved gradient mode is put back.
no_grad_exit(saved) == saved

\* model.forward(images): the last layer is nn.Linear, whose parameters
\* require gradients; the result is tracked when the gradient mode is on.
forward(b, w) ==
    [type |-> "output", batch |-> b, at |-> Len(w),
     requires_grad |-> grad_enabled,
     grad_fn |-> IF grad_enabled THEN "AddmmBackward" ELSE "None"]

\* images[0].view(1, 784): data of the loader, which requires no gradient.
view(b) ==
    [type |-> "image", batch |-> b, shape |-> <<1, input_size>>,
     requires_grad |-> FALSE, grad_fn |-> "None"]

\* F.softmax(logits, dim=1): tracked when the gradient mode is on and its
\* operand requires gradients.
softmax(t) ==
    [type |-> "probabilities", batch |-> t.batch, at |-> t.at,
     requires_grad |-> grad_enabled /\ t.requires_grad,
     grad_fn |-> IF grad_enabled /\ t.requires_grad
                 THEN "SoftmaxBackward" ELSE "None"]

\* criterion(output, labels)
criterion(out, b) == [type |-> "loss", batch |-> out.batch, at |-> out.at, labels |-> b]

\* loss.backward(): gradients are accumulated into .grad.
loss_backward(g, l) ==
    LET term == [batch |-> l.batch, at |-> l.at]
    IN  IF g = None
        THEN [type |-> "grad", terms |-> <<term>>]
        ELSE [type |-> "grad", terms |-> Append(g.terms, term)]

\* optimizer.step(): the parameters move along the stored gradient.
optimizer_step(w, g) == IF g = None THEN w ELSE Append(w, g.terms)

\* images, labels = next(iter(trainloader)); images.resize_(64, 784)
DemoNext ==
    /\ tpc = "demo_next"
    /\ TrainingOnly
    /\ \E b \in Batches : batch' = b
    /\ ops' = <<>>
    /\ tpc' = "demo_zero_grad"
    /\ UNCHANGED <<e, steps, remaining, output, loss, grad, weights, running_loss>>

\* optimizer.zero_grad()
ZeroGrad(here, next) ==
    /\ tpc = here
    /\ TrainingOnly
    /\ grad' = zero_grad(grad)
    /\ ops' = Append(ops, "zero_grad")
    /\ tpc' = next
    /\ UNCHANGED <<e, steps, remaining, batch, output, loss, weights, running_loss>>

\* output = model.forward(images)
Forward(here, next) ==
    /\ tpc = here
    /\ TrainingOnly
    /\ output' = forward(batch, weights)
    /\ ops' = Append(ops, "forward")
    /\ tpc' = next
    /\ UNCHANGED <<e, steps, remaining, batch, loss, grad, weights, running_loss>>

\* loss = criterion(output, labels)
Loss(here, next) ==
    /\ tpc = here
    /\ TrainingOnly
    /\ loss' = criterion(output, batch)
    /\ ops' = Append(ops, "loss")
    /\ tpc' = next
    /\ UNCHANGED <<e, steps, remaining, batch, output, grad, weights, running_loss>>

\* Faulty variant: the backward pass is left out.
Backward_skipped(here, next) ==
    /\ tpc = here
    /\ TrainingOnly
    /\ tpc' = next
    /\ UNCHANGED <<e, steps, remaining, batch, output, loss, grad, weights,
                   running_loss, ops>>

\* loss.backward()
Backward(here, next) ==
    /\ tpc = here
    /\ TrainingOnly
    /\ grad' = loss_backward(grad, loss)
    /\ ops' = Append(ops, "backward")
    /\ tpc' = next
    /\ UNCHANGED <<e, steps, remaining, batch, output, loss, weights, running_loss>>

\* optimizer.step()
Step(here, next) ==
    /\ tpc = here
    /\ TrainingOnly
    /\ weights' = optimizer_step(weights, grad)
    /\ ops' = Append(ops, "step")
    /\ tpc' = next
    /\ UNCHANGED <<e, steps, remaining, batch, output, loss, grad, running_loss>>

DemoZeroGrad == ZeroGrad("demo_zero_grad", "demo_forward")
DemoForward  == Forward("demo_forward", "demo_loss")
DemoLoss     == Loss("demo_loss", "demo_backward")
DemoBackward == Backward("demo_backward", "demo_step")
DemoStep     == Step("demo_step", "new_optimizer")

\* optimizer = optim.SGD(model.parameters(), lr=0.003); epochs = 3;
\* print_every = 40; steps = 0
NewOptimizer ==
    /\ tpc = "new_optimizer"
    /\ TrainingOnly
    /\ steps' = 0
    /\ e' = 0
    /\ tpc' = "epoch"
    /\ UNCHANGED <<remaining, batch, output, loss, grad, weights, running_loss, ops>>

\* for e in range(epochs): running_loss = 0; the loader starts a new pass
EpochStart ==
    /\ tpc = "epoch"
    /\ TrainingOnly
    /\ e < epochs
    /\ running_loss' = 0
    /\ remaining' = Batches
    /\ tpc' = "next_batch"
    /\ UNCHANGED <<e, steps, batch, output, loss, grad, weights, ops>>

\* the loop over the epochs is exhausted
LoopEnd ==
    /\ tpc = "epoch"
    /\ TrainingOnly
    /\ e >= epochs
    /\ tpc' = "done"
    /\ UNCHANGED <<e, steps, remaining, batch, output, loss, grad, weights,
                   running_loss, ops>>

\* for images, labels in iter(trainloader): steps += 1; images.resize_(...)
\* The loader shuffles: it yields the mini-batches of the epoch in any order.
NextBatch ==
    /\ tpc = "next_batch"
    /\ TrainingOnly
    /\ remaining # {}
    /\ \E b \in remaining :
          /\ batch' = b
          /\ remaining' = remaining \ {b}
    /\ steps' = steps + 1
    /\ ops' = <<>>
    /\ tpc' = "zero_grad"
    /\ UNCHANGED <<e, output, loss, grad, weights, running_loss>>

\* the loader is exhausted: next epoch
EpochEnd ==
    /\ tpc = "next_batch"
    /\ TrainingOnly
    /\ remaining = {}
    /\ e' = e + 1
    /\ tpc' = "epoch"
    /\ UNCHANGED <<steps, remaining, batch, output, loss, grad, weights,
                   running_loss, ops>>

LoopZeroGrad == ZeroGrad("zero_grad", "forward")
LoopForward  == Forward("forward", "loss")
LoopLoss     == Loss("loss", "backward")
LoopBackward == Backward("backward", "step")
LoopStep     == Step("step", "running_loss")

\* running_loss += loss.item(); every print_every steps print and reset it.
\* running_loss counts the losses summed into it.
RunningLoss ==
    /\ tpc = "running_loss"
    /\ TrainingOnly
    /\ running_loss' = IF steps % print_every = 0 THEN 0 ELSE running_loss + 1
    /\ tpc' = "next_batch"
    /\ UNCHANGED <<e, steps, remaining, batch, output, loss, grad, weights, ops>>

TrainInit ==
    /\ tpc = "demo_next"
    /\ e = 0
    /\ steps = 0
    /\ remaining = {}
    /\ batch = 0
    /\ output = None
    /\ loss = None
    /\ grad = None
    /\ weights = <<>>
    /\ running_loss = 0
    /\ ops = <<>>

(***************************************************************************)
(* "Training Networks", inference cell, statement by statement.  It runs   *)
(* after the training loop, in the same kernel.                            *)
(***************************************************************************)
InferFrame ==
    /\ UNCHANGED <<slVars, gradVars, tensVars>>
    /\ UNCHANGED <<e, steps, remaining, output, loss, grad, weights,
                   running_loss, ops>>

\* images, labels = next(iter(trainloader)); img = images[0].view(1, 784)
InferNext ==
    /\ tpc = "done"
    /\ InferFrame
    /\ \E b \in Batches :
          /\ batch' = b
          /\ img' = view(b)
    /\ tpc' = "no_grad_enter"
    /\ UNCHANGED <<grad_enabled, prev, logits, ps>>

\* with torch.no_grad():
NoGradEnter ==
    /\ tpc = "no_grad_enter"
    /\ InferFrame
    /\ prev' = no_grad_enter(grad_enabled).prev
    /\ grad_enabled' = no_grad_enter(grad_enabled).grad_enabled
    /\ tpc' = "infer_forward"
    /\ UNCHANGED <<batch, img, logits, ps>>

\* logits = model.forward(img)
InferForward ==
    /\ tpc = "infer_forward"
    /\ InferFrame
    /\ logits' = forward(img.batch, weights)
    /\ tpc' = "no_grad_exit"
    /\ UNCHANGED <<batch, grad_enabled, prev, img, ps>>

\* the end of the with block
NoGradExit ==
    /\ tpc = "no_grad_exit"
    /\ InferFrame
    /\ grad_enabled' = no_grad_exit(prev)
    /\ tpc' = "softmax"
    /\ UNCHANGED <<batch, prev, img, logits, ps>>

\* ps = F.softmax(logits, dim=1); helper.view_classify(img.view(1, 28, 28), ps)
InferSoftmax ==
    /\ tpc = "softmax"
    /\ InferFrame
    /\ ps' = softmax(logits)
    /\ tpc' = "end"
    /\ UNCHANGED <<batch, grad_enabled, prev, img, logits>>

InferInit ==
    /\ grad_enabled = TRUE
    /\ prev = None
    /\ img = None
    /\ logits = None
    /\ ps = None

(***************************************************************************)
(* "Tensors".  The kernel holds tensor objects; a name is bound to a       *)
(* reference to one of them, so that an operation that returns its own     *)
(* operand and one that returns a new tensor differ.  A tensor object is   *)
(* its shape and its elements in row-major order, as exact fractions.      *)
(***************************************************************************)
Grain == 2          \* torch.rand draws an element from 0/Grain .. (Grain-1)/Grain

RandElems == {Frac(k, Grain) : k \in 0..(Grain - 1)}

Ref(i) == [type |-> "ref", id |-> i]
Deref(h, r) == h[r.id]
TensorObj(shape, data) == [shape |-> shape, data |-> data]

\* Element (i, j) of a matrix, rows and columns counted from 1.
At(t, i, j) == t.data[(i - 1) * t.shape[2] + j]

\* torch.ones(size)
ones(shape) == TensorObj(shape, [k \in 1..Numel(shape) |-> Frac(1, 1)])

\* a + b for tensors of one shape, elementwise.
tensor_add(a, b) ==
    TensorObj(a.shape, [k \in 1..Len(a.data) |-> FAdd(a.data[k], b.data[k])])

\* t + n for a number n, elementwise.
Plus(t, n) ==
    TensorObj(t.shape, [k \in 1..Len(t.data) |-> FAdd(t.data[k], Frac(n, 1))])

\* z[i]: row i (from 0) of a matrix.
Index0(t, i) ==
    LET cols == Numel(Tail(t.shape))
    IN  TensorObj(Tail(t.shape), SubSeq(t.data, i * cols + 1, (i + 1) * cols))

\* z[:, c:]: the columns from c (from 0) on, of every row.
ColsFrom(t, c) ==
    LET cols == t.shape[2]
        kept == cols - c
    IN  TensorObj(<<t.shape[1], kept>>,
                  [k \in 1..(t.shape[1] * kept) |->
                      t.data[((k - 1) \div kept) * cols + c + ((k - 1) % kept) + 1]])

\* Faulty variant: the operand itself is changed and returned.
add_in_place(h, r, n) ==
    [heap |-> [h EXCEPT ![r.id] = Plus(@, n)], result |-> r]

\* t.add(n): a new tensor.
add(h, r, n) ==
    [heap |-> Append(h, Plus(Deref(h, r), n)), result |-> Ref(Len(h) + 1)]

\* Faulty variant: the sum goes to a new tensor, the operand stays.
add__on_copy(h, r, n) ==
    [heap |-> Append(h, Plus(Deref(h, r), n)), result |-> Ref(Len(h) + 1)]

\* t.add_(n): the operand is changed in place and returned.
add_(h, r, n) ==
    [heap |-> [h EXCEPT ![r.id] = Plus(@, n)], result |-> r]

\* t.size()
size(h, r) == [type |-> "Size", shape |-> Deref(h, r).shape]

\* Faulty variant: the elements are laid out as those of the transpose.
resize__transposed(h, r, sizes) ==
    LET t == Deref(h, r)
        rows == t.shape[1]
        cols == t.shape[2]
    IN  [heap |-> [h EXCEPT ![r.id] =
                      TensorObj(sizes,
                                [k \in 1..Numel(sizes) |->
                                    t.data[((k - 1) % rows) * cols
                                           + ((k - 1) \div rows) + 1]])],
         result |-> r]

\* t.resize_(*sizes), for sizes of no more elements than t has: the shape
\* is changed in place, the storage is kept, the operand is returned.
resize_(h, r, sizes) ==
    [heap |-> [h EXCEPT ![r.id] =
                  TensorObj(sizes, SubSeq(@.data, 1, Numel(sizes)))],
     result |-> r]

\* Faulty variant: the operand itself is reshaped and returned.
resize_in_place(h, r, sizes) ==
    [heap |-> [h EXCEPT ![r.id] = TensorObj(sizes, @.data)], result |-> r]

\* t.resize(*sizes), deprecated, for sizes of as many elements as t has:
\* a new tensor of the given shape over the elements of t.
resize(h, r, sizes) ==
    [heap |-> Append(h, TensorObj(sizes, Deref(h, r).data)),
     result |-> Ref(Len(h) + 1)]

\* In [2]: x = torch.rand(3, 2); x
RandCell ==
    /\ npc = "rand"
    /\ TensorsOnly
    /\ \E d \in [1..6 -> RandElems] :
          heap' = Append(heap, TensorObj(<<3, 2>>, d))
    /\ X' = Ref(Len(heap) + 1)
    /\ Out' = X'
    /\ npc' = "ones"
    /\ UNCHANGED <<Y, Z, Out_add>>

\* In [4]: y = torch.ones(x.size()); y
OnesCell ==
    /\ npc = "ones"
    /\ TensorsOnly
    /\ heap' = Append(heap, ones(size(heap, X).shape))
    /\ Y' = Ref(Len(heap) + 1)
    /\ Out' = Y'
    /\ npc' = "sum"
    /\ UNCHANGED <<X, Z, Out_add>>

\* In [5]: z = y + x; z
SumCell ==
    /\ npc = "sum"
    /\ TensorsOnly
    /\ heap' = Append(heap, tensor_add(Deref(heap, Y), Deref(heap, X)))
    /\ Z' = Ref(Len(heap) + 1)
    /\ Out' = Z'
    /\ npc' = "indexing"
    /\ UNCHANGED <<X, Y, Out_add>>

\* In [11]: print('Position 0:', z[0]); print(..., z[:,1:])
IndexingCell ==
    /\ npc = "indexing"
    /\ TensorsOnly
    /\ Out' = [type |-> "stdout",
               text |-> <<Index0(Deref(heap, Z), 0), ColsFrom(Deref(heap, Z), 1)>>]
    /\ npc' = "add"
    /\ UNCHANGED <<heap, X, Y, Z, Out_add>>

\* In [12]: z.add(1)
AddCell ==
    /\ npc = "add"
    /\ TensorsOnly
    /\ heap' = add(heap, Z, 1).heap
    /\ Out' = add(heap, Z, 1).result
    /\ Out_add' = Out'
    /\ npc' = "add_"
    /\ UNCHANGED <<X, Y, Z>>

\* In [13]: z.add_(1)
AddInPlaceCell ==
    /\ npc = "add_"
    /\ TensorsOnly
    /\ heap' = add_(heap, Z, 1).heap
    /\ Out' = add_(heap, Z, 1).result
    /\ npc' = "print"
    /\ UNCHANGED <<X, Y, Z, Out_add>>

\* In [14]: print(z)
PrintCell ==
    /\ npc = "print"
    /\ TensorsOnly
    /\ Out' = [type |-> "stdout", text |-> <<Deref(heap, Z)>>]
    /\ npc' = "size"
    /\ UNCHANGED <<heap, X, Y, Z, Out_add>>

\* In [16]: z.size()
SizeCell ==
    /\ npc = "size"
    /\ TensorsOnly
    /\ Out' = size(heap, Z)
    /\ npc' = "resize_"
    /\ UNCHANGED <<heap, X, Y, Z, Out_add>>

\* In [19]: z.resize_(2,3)
ResizeInPlaceCell ==
    /\ npc = "resize_"
    /\ TensorsOnly
    /\ heap' = resize_(heap, Z, <<2, 3>>).heap
    /\ Out' = resize_(heap, Z, <<2, 3>>).result
    /\ npc' = "resize"
    /\ UNCHANGED <<X, Y, Z, Out_add>>

\* In [24]: z.resize(1, 6)
ResizeCell ==
    /\ npc = "resize"
    /\ TensorsOnly
    /\ heap' = resize(heap, Z, <<1, 6>>).heap
    /\ Out' = resize(heap, Z, <<1, 6>>).result
    /\ npc' = "numpy"
    /\ UNCHANGED <<X, Y, Z, Out_add>>

TensorInit ==
    /\ npc = "rand"
    /\ heap = <<>>
    /\ X = None
    /\ Y = None
    /\ Z = None
    /\ Out = None
    /\ Out_add = None

(***************************************************************************)
(* Specifications                                                          *)
(***************************************************************************)
\* The networks of the notebook.
TrainedArch == ArchOf(input_size, output_size, TrainedHidden)
OtherArch   == ArchOf(input_size, output_size, OtherHidden)

\* Any small network.
RECURSIVE SeqsUpTo(_, _)
SeqsUpTo(S, n) ==
    IF n = 0 THEN {<<>>}
    ELSE LET shorter == SeqsUpTo(S, n - 1)
         IN  shorter \cup {Append(q, w) : q \in shorter, w \in S}
AnyHidden == SeqsUpTo(1..MaxWidth, MaxHidden) \ {<<>>}
AnyArchs ==
    {ArchOf(i, o, h) : i \in {input_size, 28}, o \in {output_size, 2}, h \in AnyHidden}

\* The "Saving and Loading Models" notebook, its cells run in order.
Init == SLInit /\ GradInit /\ TrainInit /\ InferInit /\ TensorInit
Next ==
    \/ Cell5({TrainedArch}, InitVals)
    \/ Cell6(TrainVals)
    \/ Cell7
    \/ Cell8
    \/ Cell9
    \/ Cell10
    \/ Cell11({OtherArch}, InitVals)
    \/ Cell12
    \/ Cell13
    \/ Cell14(InitVals)
Spec == Init /\ [][Next]_vars

\* The same cells with the constructors given any small network.
NextAny ==
    \/ Cell5(AnyArchs, {1})
    \/ Cell6({NumVals + 1})
    \/ Cell7
    \/ Cell8
    \/ Cell9
    \/ Cell10
    \/ Cell11(AnyArchs, {2})
    \/ Cell12
    \/ Cell13
    \/ Cell14({1})
SpecAny == Init /\ [][NextAny]_vars

\* The autograd cells of "Training Networks".
NextGrad ==
    \/ CellRandn
    \/ CellPow
    \/ CellGradFn
    \/ CellMean
    \/ CellPrintGrad
    \/ CellBackward
SpecGrad == Init /\ [][NextGrad]_vars

\* The training cells of "Training Networks".
NextTrain ==
    \/ DemoNext
    \/ DemoZeroGrad
    \/ DemoForward
    \/ DemoLoss
    \/ DemoBackward
    \/ DemoStep
    \/ NewOptimizer
    \/ EpochStart
    \/ LoopEnd
    \/ NextBatch
    \/ EpochEnd
    \/ LoopZeroGrad
    \/ LoopForward
    \/ LoopLoss
    \/ LoopBackward
    \/ LoopStep
    \/ RunningLoss
SpecTrain == Init /\ [][NextTrain]_vars

\* The training cells and the inference cell after them.
NextInfer ==
    \/ DemoNext
    \/ DemoZeroGrad
    \/ DemoForward
    \/ DemoLoss
    \/ DemoBackward
    \/ DemoStep
    \/ NewOptimizer
    \/ EpochStart
    \/ LoopEnd
    \/ NextBatch
    \/ EpochEnd
    \/ LoopZeroGrad
    \/ LoopForward
    \/ LoopLoss
    \/ LoopBackward
    \/ LoopStep
    \/ RunningLoss
    \/ InferNext
    \/ NoGradEnter
    \/ InferForward
    \/ NoGradExit
    \/ InferSoftmax
SpecInfer == Init /\ [][NextInfer]_vars

\* The cells of "Tensors" up to the end of its Reshaping section.
NextTensors ==
    \/ RandCell
    \/ OnesCell
    \/ SumCell
    \/ IndexingCell
    \/ AddCell
    \/ AddInPlaceCell
    \/ PrintCell
    \/ SizeCell
    \/ ResizeInPlaceCell
    \/ ResizeCell
SpecTensors == Init /\ [][NextTensors]_vars

(***************************************************************************)
(* Properties of "Saving and Loading Models"                               *)
(***************************************************************************)
HasMessage(msg) == \E m \in error : m.msg = msg

\* The content of the file is a checkpoint record: a dictionary with the
\* keys input_size, output_size, hidden_layers, state_dict.
IsCheckpointRecord(f) ==
    /\ f.pickle[1] = "dict"
    /\ [j \in 1..Len(f.pickle[2]) |-> f.pickle[2][j][1]]
          = <<"input_size", "output_size", "hidden_layers", "state_dict">>
IsStateDict(f) == f.pickle[1] = "odict"

\* C1, as stated: for ANY network, saving the checkpoint record and calling
\* load_checkpoint returns, without error, a network with the input size,
\* output size and hidden widths of the saved one.
C1_RoundTripRebuildsAnyNetwork ==
    pc = 15 => /\ error = {}
               /\ Arch(model) = Arch(saved_model)

\* C1, amended: the same for any network built with input size 784 and
\* output size 10, the two sizes the save cell writes into the record.
C1_RoundTripRebuilds784x10 ==
    (/\ pc = 15
     /\ Arch(saved_model).input_size = input_size
     /\ Arch(saved_model).output_size = output_size)
    => /\ error = {}
       /\ Arch(model) = Arch(saved_model)

C1_Witness ==
    /\ pc = 15
    /\ error = {}
    /\ Arch(saved_model) = ArchOf(input_size, output_size, <<1, 2>>)
    /\ Arch(model) = ArchOf(input_size, output_size, <<1, 2>>)

C3_DifferentWidthsRaiseSizeMismatch ==
    (pc = 12 /\ Arch(model).hidden_layers # Arch(trained_model).hidden_layers)
    => HasMessage("size mismatch")

\* C3, amended: it raises an error, which is a size-mismatch error when the
\* two networks have the same number of hidden layers.
C3_DifferentWidthsRaise ==
    (pc = 12 /\ Arch(model).hidden_layers # Arch(trained_model).hidden_layers)
    => /\ error # {}
       /\ Len(model.hidden_layers) = Len(trained_model.hidden_layers)
             => HasMessage("size mismatch")

C3_Witness ==
    /\ pc = 12
    /\ Arch(trained_model).hidden_layers = <<1, 2>>
    /\ Arch(model).hidden_layers = <<2, 1>>
    /\ HasMessage("size mismatch")

\* C4: loading succeeds whenever the target network has the input size,
\* output size and hidden widths of the network the state dict came from.
C4_SameArchitectureLoads ==
    /\ pc = 11 => error = {}
    /\ (pc = 12 /\ Arch(model) = Arch(trained_model)) => error = {}

C4_Witness ==
    /\ pc = 12
    /\ Arch(model) = Arch(trained_model)
    /\ Len(model.hidden_layers) = 2
    /\ error = {}

\* C5: after the cells have run in order, the checkpoint file holds the
\* hidden widths and the parameters of the network that was trained, and
\* load_checkpoint returns the trained model.
C5_CheckpointHoldsTrainedModel ==
    /\ pc >= 13 =>
          /\ torch_load(file).hidden_layers = TrainedHidden
          /\ torch_load(file).state_dict = model_state_dict(trained_model)
    /\ pc = 15 => model = trained_model

\* C6, as stated: whenever 'checkpoint.pth' exists, its content is a
\* checkpoint record.
C6_FileAlwaysCheckpointRecord ==
    file # None => IsCheckpointRecord(file)

\* C6, amended: the file holds the bare state dict from the first save to
\* the checkpoint save cell, and a checkpoint record from that cell on.
C6_FileRecordAfterSaveCell ==
    /\ pc <= 8 => file = None
    /\ pc \in 9..12 => (file # None /\ IsStateDict(file))
    /\ pc >= 13 => (file # None /\ IsCheckpointRecord(file))

C6_Witness ==
    /\ pc = 13
    /\ IsCheckpointRecord(file)
    /\ torch_load(file).hidden_layers = OtherHidden

(***************************************************************************)
(* Properties of "Training Networks"                                       *)
(***************************************************************************)
StepOrder == <<"zero_grad", "forward", "loss", "backward", "step">>
IsPrefix(p, q) == Len(p) <= Len(q) /\ p = SubSeq(q, 1, Len(p))
InsideStep ==
    tpc \in {"demo_zero_grad", "demo_forward", "demo_loss", "demo_backward",
             "demo_step", "zero_grad", "forward", "loss", "backward", "step"}
AtOptimizerStep == tpc \in {"demo_step", "step"}
CurrentTerm == [batch |-> batch, at |-> Len(weights)]

\* C7: every training step, the demonstration step and each iteration of the
\* loop, performs zero_grad, forward, loss (from the forward output),
\* backward, optimizer step, once each and in this order; the optimizer never
\* steps without a backward pass on the current batch since its last step.
C7_TrainingStepOrder ==
    /\ IsPrefix(ops, StepOrder)
    /\ (~InsideStep /\ tpc # "demo_next") => ops = StepOrder
    /\ (InsideStep /\ Len(ops) >= 3) =>
          /\ loss.batch = output.batch
          /\ loss.at = output.at
          /\ output.batch = batch
    /\ AtOptimizerStep =>
          /\ ops = SubSeq(StepOrder, 1, 4)
          /\ grad # None
          /\ grad.terms # <<>>
          /\ grad.terms[Len(grad.terms)] = CurrentTerm

C7_Witness ==
    /\ tpc = "running_loss"
    /\ steps = epochs * NumBatches
    /\ ops = StepOrder
    /\ Len(weights) = 1 + epochs * NumBatches

\* C8: backward passes add to the stored gradient unless it is cleared, and
\* whenever the optimizer steps the stored gradient is the gradient of the
\* current mini-batch's loss alone, never a sum with an earlier mini-batch.
C8_GradientOfCurrentBatchOnly ==
    /\ AtOptimizerStep => (grad # None /\ grad.terms = <<CurrentTerm>>)
    /\ \A k \in 1..Len(weights) : Len(weights[k]) = 1

C8_Witness ==
    /\ tpc = "step"
    /\ steps = 2
    /\ Len(weights) = 2
    /\ grad.terms = <<CurrentTerm>>

BeforeBackward == gpc \in {"randn", "pow", "grad_fn", "mean", "print_grad", "backward"}

\* C9: x.grad is None in every state before z.backward(), and a tensor of
\* the shape of x after it.
C9_GradNoneUntilBackward ==
    /\ BeforeBackward => x_grad = None
    /\ gpc = "done" =>
          /\ x_grad # None
          /\ x_grad.shape = x.shape
          /\ Len(x_grad.data) = Numel(x.shape)
          /\ printed[5] = None

C9_Witness ==
    /\ gpc = "done"
    /\ x_grad # None
    /\ x_grad.shape = <<2, 2>>
    /\ printed[5] = None

\* C10: for y = x**2 and z = y.mean() over the 2x2 tensor x, after
\* z.backward() x.grad equals x/2, element by element.
C10_GradIsHalfX ==
    gpc = "done" =>
        /\ \A k \in 1..4 : x_grad.data[k] = FDivInt(x.data[k], 2)
        /\ printed[6].data = printed[7].data

C10_Witness ==
    /\ gpc = "done"
    /\ x.data = <<Frac(1, 1), Frac(-1, 1), Frac(0, 1), Frac(1, 1)>>
    /\ x_grad.data = <<Frac(1, 2), Frac(-1, 2), Frac(0, 1), Frac(1, 2)>>

(***************************************************************************)
(* Properties of the inference cell of "Training Networks"                 *)
(***************************************************************************)
InsideNoGrad == tpc \in {"infer_forward", "no_grad_exit"}

\* C11: the logits computed inside the `with torch.no_grad():` block, from
\* parameters that require gradients, have requires_grad False and no
\* grad_fn; the same model.forward outside the block gives a tensor with a
\* grad_fn; and the gradient mode is off exactly inside the block: leaving
\* the block puts back the mode saved on entry, the one it had before.
C11_NoGradTracksNothing ==
    /\ logits # None =>
          /\ ~logits.requires_grad
          /\ logits.grad_fn = "None"
    /\ output # None =>
          /\ output.requires_grad
          /\ output.grad_fn # "None"
    /\ grad_enabled = ~InsideNoGrad
    /\ tpc \in {"softmax", "end"} => grad_enabled = prev

C11_Witness ==
    /\ tpc = "end"
    /\ logits # None
    /\ ~logits.requires_grad
    /\ logits.at = Len(weights)
    /\ output.at = Len(weights) - 1
    /\ output.grad_fn = "AddmmBackward"
    /\ grad_enabled

(***************************************************************************)
(* Properties of "Tensors"                                                 *)
(***************************************************************************)
One == Frac(1, 1)

\* C12: z.add(1) returns a new tensor, of the shape of z, whose elements are
\* those of z plus 1, and z is the same object with the same shape and the
\* same elements after the call as before it.
C12_AddLeavesOperand ==
    [][npc = "add" =>
          /\ Out'.id # Z.id
          /\ Deref(heap', Out').shape = Deref(heap, Z).shape
          /\ \A k \in 1..6 :
                Deref(heap', Out').data[k] = FAdd(Deref(heap, Z).data[k], One)
          /\ Z' = Z
          /\ Deref(heap', Z').shape = Deref(heap, Z).shape
          /\ \A k \in 1..6 :
                Deref(heap', Z').data[k] = Deref(heap, Z).data[k]]_vars

C12_Witness ==
    /\ npc = "add_"
    /\ Out.id # Z.id
    /\ Deref(heap, Z).data = <<Frac(3, 2), One, One, One, One, Frac(3, 2)>>
    /\ Deref(heap, Out).data[1] = Frac(5, 2)

\* C13: z.add_(1) returns z itself, every element of z is afterwards its
\* previous value plus 1, and the contents of z are then those z.add(1)
\* returns from the same starting z (those the z.add(1) cell did return).
C13_AddInPlaceEqualsAdd ==
    [][npc = "add_" =>
          /\ Z' = Z
          /\ Out' = Z
          /\ Deref(heap', Z).shape = Deref(heap, Z).shape
          /\ \A k \in 1..6 :
                Deref(heap', Z).data[k] = FAdd(Deref(heap, Z).data[k], One)
          /\ Deref(heap', Z) = Deref(add(heap, Z, 1).heap, add(heap, Z, 1).result)
          /\ Deref(heap', Z) = Deref(heap', Out_add)]_vars

C13_Witness ==
    /\ npc = "print"
    /\ Out = Z
    /\ Out_add # Z
    /\ Deref(heap, Z).data = <<Frac(5, 2), Frac(2, 1), Frac(5, 2),
                               Frac(2, 1), Frac(2, 1), Frac(2, 1)>>
    /\ Deref(heap, Out_add) = Deref(heap, Z)

\* C14: z.resize_(2,3) on the 3x2 tensor z makes z 2x3 in place and keeps
\* its 6 elements in row-major order: element k of the flattened tensor is
\* unchanged, so element (i, j) of the 2x3 tensor is the element of the 3x2
\* tensor at the same row-major position.
C14_ResizeInPlaceKeepsOrder ==
    [][(npc = "resize_" /\ Deref(heap, Z).shape = <<3, 2>>) =>
          /\ Z' = Z
          /\ Deref(heap', Z).shape = <<2, 3>>
          /\ Len(Deref(heap', Z).data) = 6
          /\ \A k \in 1..6 : Deref(heap', Z).data[k] = Deref(heap, Z).data[k]
          /\ \A i \in 1..2, j \in 1..3 :
                LET k == (i - 1) * 3 + j - 1
                IN  At(Deref(heap', Z), i, j)
                      = At(Deref(heap, Z), (k \div 2) + 1, (k % 2) + 1)]_vars

C14_Witness ==
    /\ npc = "resize"
    /\ Out = Z
    /\ Deref(heap, Z).shape = <<2, 3>>
    /\ Deref(heap, Z).data = <<Frac(2, 1), Frac(5, 2), Frac(5, 2),
                               Frac(2, 1), Frac(2, 1), Frac(2, 1)>>

\* C15: z.resize(1, 6) returns a new tensor of shape 1x6 holding the
\* elements of z in row-major order, and z keeps its shape 2x3 and its
\* elements.
C15_ResizeLeavesOperand ==
    [][npc = "resize" =>
          /\ Out'.id # Z.id
          /\ Deref(heap', Out').shape = <<1, 6>>
          /\ \A i \in 1..2, j \in 1..3 :
                At(Deref(heap', Out'), 1, (i - 1) * 3 + j) = At(Deref(heap, Z), i, j)
          /\ Z' = Z
          /\ Deref(heap, Z).shape = <<2, 3>>
          /\ Deref(heap', Z) = Deref(heap, Z)]_vars

C15_Witness ==
    /\ npc = "numpy"
    /\ Out.id # Z.id
    /\ Deref(heap, Out).shape = <<1, 6>>
    /\ Deref(heap, Z).shape = <<2, 3>>
    /\ Deref(heap, Z).data = <<Frac(2, 1), Frac(5, 2), Frac(2, 1),
                               Frac(5, 2), Frac(2, 1), Frac(2, 1)>>
    /\ Deref(heap, Out).data = Deref(heap, Z).data

====
